---------------------------- MODULE Spec2Model ----------------------------
(***************************************************************************)
(* Model of fix_project_manager.py: a script that reads                    *)
(* src/components/ProjectManagerModal.tsx, applies six re.sub              *)
(* substitutions in a fixed order, writes the text back and prints a       *)
(* notice.  Texts are TLA+ strings, one character per position.            *)
(***************************************************************************)
EXTENDS Integers, Sequences, FiniteSets, TLC

(* ------------------------------ bounds --------------------------------- *)
\* largest number of stand-alone reset call sites in an input file
MaxResetCalls == 2
\* number of consecutive invocations of the script on the same file
MaxRuns == 2

(* ---------------- the patterns and replacements of the script ---------- *)
\* Each old_* is the regular expression exactly as the raw string literal
\* of the source spells it; each new_* is the replacement string.  A TLA+
\* string cannot hold the grave accent, so that one character is written ~
\* throughout, a character that occurs in none of the script's strings.

old_state ==
  "const \\[formData, setFormData\\] = useState\\({ name: '', color: COLORS\\[0\\], customerId: undefined as number \\| undefined }\\)"

new_state ==
  "const [formData, setFormData] = useState({ name: '', color: COLORS[0], customerFirestoreId: undefined as string | undefined })"

old_reset ==
  "setFormData\\({ name: '', color: COLORS\\[0\\], customerId: undefined }\\)"

new_reset ==
  "setFormData({ name: '', color: COLORS[0], customerFirestoreId: undefined })"

old_edit ==
  "setFormData\\({ name: project\\.name, color: project\\.color, customerId: project\\.customerId }\\)"

new_edit ==
  "setFormData({ name: project.name, color: project.color, customerFirestoreId: project.customerFirestoreId })"

old_submit ==
  "    try {\n" \o
  "      if \\(editingProject\\) {\n" \o
  "        await updateProject\\(editingProject\\.id!, {\n" \o
  "          name: formData\\.name\\.trim\\(\\),\n" \o
  "          color: formData\\.color,\n" \o
  "          customerId: formData\\.customerId\n" \o
  "        }\\)\n" \o
  "        showToast\\('Project updated', 'success'\\)\n" \o
  "      } else {\n" \o
  "        await createProject\\({\n" \o
  "          name: formData\\.name\\.trim\\(\\),\n" \o
  "          color: formData\\.color,\n" \o
  "          customerId: formData\\.customerId,\n" \o
  "          archived: false\n" \o
  "        }\\)\n" \o
  "        showToast\\('Project created', 'success'\\)\n" \o
  "      }\n" \o
  "\n" \o
  "      setEditingProject\\(null\\)\n" \o
  "      setIsCreating\\(false\\)\n" \o
  "      setFormData\\({ name: '', color: COLORS\\[0\\], customerId: undefined }\\)\n" \o
  "    } catch \\(error\\) {\n" \o
  "      showToast\\('Failed to save project', 'error'\\)\n" \o
  "    }"

new_submit ==
  "    try {\n" \o
  "      // Find the customer's local ID for backward compatibility\n" \o
  "      const customer = formData.customerFirestoreId \n" \o
  "        ? customers.find(c => c.firestoreId === formData.customerFirestoreId)\n" \o
  "        : undefined;\n" \o
  "\n" \o
  "      if (editingProject) {\n" \o
  "        await updateProject(editingProject.id!, {\n" \o
  "          name: formData.name.trim(),\n" \o
  "          color: formData.color,\n" \o
  "          customerId: customer?.id,\n" \o
  "          customerFirestoreId: formData.customerFirestoreId\n" \o
  "        })\n" \o
  "        showToast('Project updated', 'success')\n" \o
  "      } else {\n" \o
  "        await createProject({\n" \o
  "          name: formData.name.trim(),\n" \o
  "          color: formData.color,\n" \o
  "          customerId: customer?.id,\n" \o
  "          customerFirestoreId: formData.customerFirestoreId,\n" \o
  "          archived: false\n" \o
  "        })\n" \o
  "        showToast('Project created', 'success')\n" \o
  "      }\n" \o
  "\n" \o
  "      setEditingProject(null)\n" \o
  "      setIsCreating(false)\n" \o
  "      setFormData({ name: '', color: COLORS[0], customerFirestoreId: undefined })\n" \o
  "    } catch (error) {\n" \o
  "      showToast('Failed to save project', 'error')\n" \o
  "    }"

old_select ==
  "                <select\n" \o
  "                  value={formData\\.customerId \\|\\| ''}\n" \o
  "                  onChange={\\(e\\) => setFormData\\({ \\.\\.\\.formData, customerId: e\\.target\\.value \\? Number\\(e\\.target\\.value\\) : undefined }\\)}\n" \o
  "                  className=\"w-full border border-gray-300 dark:border-gray-600 dark:bg-gray-800 dark:text-white rounded-md px-3 py-2 focus:outline-none focus:ring-2 focus:ring-blue-500\"\n" \o
  "                >\n" \o
  "                  <option value=\"\">No customer</option>\n" \o
  "                  {customers\\.filter\\(c => !c\\.archived\\)\\.map\\(\\(customer\\) => \\(\n" \o
  "                    <option key={customer\\.id} value={customer\\.id}>\n" \o
  "                      {customer\\.companyName}\n" \o
  "                    </option>\n" \o
  "                  \\)\\)}\n" \o
  "                </select>"

new_select ==
  "                <select\n" \o
  "                  value={formData.customerFirestoreId || ''}\n" \o
  "                  onChange={(e) => setFormData({ ...formData, customerFirestoreId: e.target.value || undefined })}\n" \o
  "                  className=\"w-full border border-gray-300 dark:border-gray-600 dark:bg-gray-800 dark:text-white rounded-md px-3 py-2 focus:outline-none focus:ring-2 focus:ring-blue-500\"\n" \o
  "                >\n" \o
  "                  <option value=\"\">No customer</option>\n" \o
  "                  {customers.filter(c => !c.archived).map((customer) => (\n" \o
  "                    <option key={customer.id} value={customer.firestoreId}>\n" \o
  "                      {customer.companyName}\n" \o
  "                    </option>\n" \o
  "                  ))}\n" \o
  "                </select>"

old_project_item ==
  "function ProjectItem\\({ project, onEdit, onDelete, onArchive }: ProjectItemProps\\) {\n" \o
  "  return \\(\n" \o
  "    <div className={~\n" \o
  "      flex items-center justify-between p-3 border border-gray-200 dark:border-gray-700 rounded-lg\n" \o
  "      \\$\\{project\\.archived \\? 'bg-gray-50 dark:bg-gray-700 opacity-75' : 'bg-white dark:bg-gray-800 hover:bg-gray-50 dark:hover:bg-gray-700'\\}\n" \o
  "    ~}>\n" \o
  "      <div className=\"flex items-center\">\n" \o
  "        <div\n" \o
  "          className=\"w-4 h-4 rounded-full mr-3 flex-shrink-0\"\n" \o
  "          style=\\{\\{ backgroundColor: project\\.color \\}\\}\n" \o
  "        />\n" \o
  "        <span className={~font-medium \\$\\{project\\.archived \\? 'text-gray-500 dark:text-gray-400' : 'text-gray-900 dark:text-white'\\}~}>\n" \o
  "          \\{project\\.name\\}\n" \o
  "        </span>\n" \o
  "        \\{project\\.archived && \\(\n" \o
  "          <span className=\"ml-2 px-2 py-1 bg-gray-200 dark:bg-gray-600 text-gray-600 dark:text-gray-300 text-xs rounded-full\">\n" \o
  "            Archived\n" \o
  "          </span>\n" \o
  "        \\)\\}\n" \o
  "      </div>"

new_project_item ==
  "function ProjectItem({ project, onEdit, onDelete, onArchive }: ProjectItemProps) {\n" \o
  "  const { customers } = useCustomersStore();\n" \o
  "  const customer = project.customerFirestoreId \n" \o
  "    ? customers.find(c => c.firestoreId === project.customerFirestoreId)\n" \o
  "    : undefined;\n" \o
  "\n" \o
  "  return (\n" \o
  "    <div className={~\n" \o
  "      flex items-center justify-between p-3 border border-gray-200 dark:border-gray-700 rounded-lg\n" \o
  "      ${project.archived ? 'bg-gray-50 dark:bg-gray-700 opacity-75' : 'bg-white dark:bg-gray-800 hover:bg-gray-50 dark:hover:bg-gray-700'}\n" \o
  "    ~}>\n" \o
  "      <div className=\"flex items-center\">\n" \o
  "        <div\n" \o
  "          className=\"w-4 h-4 rounded-full mr-3 flex-shrink-0\"\n" \o
  "          style={{ backgroundColor: project.color }}\n" \o
  "        />\n" \o
  "        <div className=\"flex flex-col\">\n" \o
  "          <span className={~font-medium ${project.archived ? 'text-gray-500 dark:text-gray-400' : 'text-gray-900 dark:text-white'}~}>\n" \o
  "            {project.name}\n" \o
  "          </span>\n" \o
  "          {customer && (\n" \o
  "            <span className=\"text-xs text-gray-500 dark:text-gray-400\">\n" \o
  "              {customer.companyName}\n" \o
  "            </span>\n" \o
  "          )}\n" \o
  "        </div>\n" \o
  "        {project.archived && (\n" \o
  "          <span className=\"ml-2 px-2 py-1 bg-gray-200 dark:bg-gray-600 text-gray-600 dark:text-gray-300 text-xs rounded-full\">\n" \o
  "            Archived\n" \o
  "          </span>\n" \o
  "        )}\n" \o
  "      </div>"

(* ------------------------- the matching primitive ---------------------- *)
\* s has the literal text p at position i (1 <= i <= Len(s), p not empty).
\* The first character and a short prefix are compared before the whole
\* pattern, so the long comparison is made only at plausible positions.
MatchAt(s, i, p) ==
  LET n == Len(p)
      k == IF n < 24 THEN n ELSE 24
  IN  /\ SubSeq(s, i, i) = SubSeq(p, 1, 1)
      /\ i + n - 1 <= Len(s)
      /\ SubSeq(s, i, i + k - 1) = SubSeq(p, 1, k)
      /\ SubSeq(s, i, i + n - 1) = p

\* re.sub with a literal pattern and count = 0: scanning from position i,
\* the leftmost occurrence is replaced and the scan resumes after it, so
\* every non-overlapping occurrence is replaced.
RECURSIVE SubFrom(_, _, _, _)
SubFrom(s, i, p, r) ==
  LET last == Len(s) - Len(p) + 1 IN
  IF \E j \in i..last : MatchAt(s, j, p)
  THEN LET j == CHOOSE j \in i..last :
                  /\ MatchAt(s, j, p)
                  /\ \A k \in i..(j - 1) : ~MatchAt(s, k, p)
       IN  SubSeq(s, i, j - 1) \o r \o SubFrom(s, j + Len(p), p, r)
  ELSE SubSeq(s, i, Len(s))

\* The text the regular expression matches.  Every backslash in the six
\* patterns escapes one punctuation character, and no other metacharacter
\* is active (a brace not followed by a repeat count is literal), so the
\* compiled pattern is the source text without its backslashes.
Unescape(pattern) == SubFrom(pattern, 1, "\\", "")

OldState == Unescape(old_state)
OldReset == Unescape(old_reset)
OldEdit == Unescape(old_edit)
OldSubmit == Unescape(old_submit)
OldSelect == Unescape(old_select)
OldProjectItem == Unescape(old_project_item)

\* re.sub(pattern, repl, string): the replacement strings hold no
\* backslash, so the template expands to itself.
ReSub(p, repl, string) == SubFrom(string, 1, p, repl)

Has(s, p) == \E j \in 1..(Len(s) - Len(p) + 1) : MatchAt(s, j, p)

Count(s, p) == Cardinality({j \in 1..(Len(s) - Len(p) + 1) : MatchAt(s, j, p)})

(* ------------------------------ text I/O ------------------------------- *)
\* open(..., 'r') with the default newline=None: "\r\n" and a lone "\r"
\* are both read as "\n".
UniversalNewlines(raw) == SubFrom(SubFrom(raw, 1, "\r\n", "\n"), 1, "\r", "\n")

\* os.linesep of the platform the script runs on (POSIX).
linesep == "\n"

\* variant: the writer ends the text with a line terminator of its own
WriteNewlines_trailing(text) == SubFrom(text, 1, "\n", linesep) \o linesep

\* open(..., 'w') with the default newline=None: every "\n" written is
\* translated to os.linesep.
WriteNewlines(text) == SubFrom(text, 1, "\n", linesep)

Notice == "File updated successfully!"

(* ------------------------------ input files ---------------------------- *)
Header == "import { useState } from 'react'\n"
Stray == "  const customerId = Number(params.customerId)\n"

Line(b, frag) == IF b THEN frag \o "\n" ELSE ""

RECURSIVE Resets(_)
Resets(n) == IF n = 0 THEN "" ELSE "    " \o OldReset \o "\n" \o Resets(n - 1)

\* A component file: a header line, then each original fragment present or
\* absent, n stand-alone reset call sites and a use of customerId outside
\* every fragment.
Doc(p1, n, p3, p4, p5, p6) ==
  Header \o Line(p1, OldState) \o Resets(n) \o Line(p3, OldEdit)
         \o Line(p4, OldSubmit) \o Stray \o Line(p5, OldSelect)
         \o Line(p6, OldProjectItem)

\* the file as stored with line terminator eol
WithEol(doc, eol) == IF eol = "\n" THEN doc ELSE SubFrom(doc, 1, "\n", eol)

(* ------------------------------- state --------------------------------- *)
VARIABLES
  file,        \* characters stored at the target path
  fileExists,  \* the path names a file
  readable,    \* the process may open it for reading
  writable,    \* the process may open it for writing
  content,     \* the script's variable content
  pc,          \* the statement the process is at
  error,       \* the exception that ended the run, or "none"
  stdout,      \* lines printed by the current process
  run,         \* ordinal of the current invocation
  fileBefore,  \* file as it was when the current invocation started
  textRead     \* content as returned by f.read() in the current invocation

vars == <<file, fileExists, readable, writable, content, pc, error, stdout,
          run, fileBefore, textRead>>

env == <<fileExists, readable, writable>>

Init ==
  /\ \/ /\ fileExists = TRUE
        /\ \E p1, p3, p4, p5, p6 \in BOOLEAN, n \in 0..MaxResetCalls,
              eol \in {"\n", "\r\n"} :
             file = WithEol(Doc(p1, n, p3, p4, p5, p6), eol)
        /\ readable \in BOOLEAN
        /\ writable \in BOOLEAN
     \/ /\ fileExists = FALSE
        /\ file = ""
        /\ readable = FALSE
        /\ writable = FALSE
  /\ content = ""
  /\ pc = "read"
  /\ error = "none"
  /\ stdout = <<>>
  /\ run = 1
  /\ fileBefore = file
  /\ textRead = ""

(* ------------------------------ the script ----------------------------- *)
\* variant: the file is opened in a mode that creates a missing file
OpenReadFail_creates ==
  /\ pc = "read"
  /\ ~fileExists \/ ~readable
  /\ IF ~fileExists
     THEN /\ fileExists' = TRUE
          /\ readable' = TRUE
          /\ writable' = TRUE
          /\ pc' = "sub1"
          /\ UNCHANGED error
     ELSE /\ error' = "PermissionError"
          /\ pc' = "failed"
          /\ UNCHANGED env
  /\ UNCHANGED <<file, content, stdout, run, fileBefore, textRead>>

\* lines 5-6: the path does not exist or may not be read
OpenReadFail ==
  /\ pc = "read"
  /\ ~fileExists \/ ~readable
  /\ error' = IF ~fileExists THEN "FileNotFoundError" ELSE "PermissionError"
  /\ pc' = "failed"
  /\ UNCHANGED <<file, env, content, stdout, run, fileBefore, textRead>>

\* lines 5-6: content = f.read()
ReadAll ==
  /\ pc = "read"
  /\ fileExists /\ readable
  /\ content' = UniversalNewlines(file)
  /\ textRead' = content'
  /\ pc' = "sub1"
  /\ UNCHANGED <<file, env, error, stdout, run, fileBefore>>

Step(from, to, p, repl) ==
  /\ pc = from
  /\ content' = ReSub(p, repl, content)
  /\ pc' = to
  /\ UNCHANGED <<file, env, error, stdout, run, fileBefore, textRead>>

\* variant: the field is renamed wherever its name occurs
SubState_rename == Step("sub1", "sub2", "customerId", "customerFirestoreId")

\* lines 9-13
SubState == Step("sub1", "sub2", OldState, new_state)
\* variant: re.sub called with count=1
SubReset_first ==
  /\ pc = "sub2"
  /\ content' = IF Has(content, OldReset)
                THEN LET j == CHOOSE j \in 1..Len(content) :
                                 /\ MatchAt(content, j, OldReset)
                                 /\ \A k \in 1..(j - 1) :
                                       ~MatchAt(content, k, OldReset)
                     IN  SubSeq(content, 1, j - 1) \o new_reset
                           \o SubSeq(content, j + Len(OldReset), Len(content))
                ELSE content
  /\ pc' = "sub3"
  /\ UNCHANGED <<file, env, error, stdout, run, fileBefore, textRead>>

\* lines 16-20
SubReset == Step("sub2", "sub3", OldReset, new_reset)
\* lines 23-27
SubEdit == Step("sub3", "sub4", OldEdit, new_edit)
\* line 87
SubSubmit == Step("sub4", "sub5", OldSubmit, new_submit)
\* line 116
SubSelect == Step("sub5", "sub6", OldSelect, new_select)
\* line 173
SubProjectItem == Step("sub6", "open_w", OldProjectItem, new_project_item)

\* variant: the file is emptied before the refusal is noticed
OpenWriteFail_truncates ==
  /\ pc = "open_w"
  /\ ~writable
  /\ file' = ""
  /\ error' = "PermissionError"
  /\ pc' = "failed"
  /\ UNCHANGED <<env, content, stdout, run, fileBefore, textRead>>

\* line 176: the file may not be opened for writing; nothing is truncated
OpenWriteFail ==
  /\ pc = "open_w"
  /\ ~writable
  /\ error' = "PermissionError"
  /\ pc' = "failed"
  /\ UNCHANGED <<file, env, content, stdout, run, fileBefore, textRead>>

\* line 176: open(..., 'w') truncates the file
OpenWrite ==
  /\ pc = "open_w"
  /\ writable
  /\ file' = ""
  /\ pc' = "write"
  /\ UNCHANGED <<env, content, error, stdout, run, fileBefore, textRead>>

\* line 177: f.write(content) and the close at the end of the with block
WriteClose ==
  /\ pc = "write"
  /\ file' = WriteNewlines(content)
  /\ pc' = "print"
  /\ UNCHANGED <<env, content, error, stdout, run, fileBefore, textRead>>

\* variant: the write error is caught and the script carries on
WriteFail_swallowed ==
  /\ pc = "write"
  /\ \E k \in {0, Len(content) \div 2} :
       file' = SubSeq(WriteNewlines(content), 1, k)
  /\ pc' = "print"
  /\ UNCHANGED <<env, content, error, stdout, run, fileBefore, textRead>>

\* line 177: the device rejects the data (no space left, I/O error); none
\* or a leading part of it is stored
WriteFail ==
  /\ pc = "write"
  /\ \E k \in {0, Len(content) \div 2} :
       file' = SubSeq(WriteNewlines(content), 1, k)
  /\ error' = "OSError"
  /\ pc' = "failed"
  /\ UNCHANGED <<env, content, stdout, run, fileBefore, textRead>>

\* line 179
PrintNotice ==
  /\ pc = "print"
  /\ stdout' = Append(stdout, Notice)
  /\ pc' = "done"
  /\ UNCHANGED <<file, env, content, error, run, fileBefore, textRead>>

\* the script is invoked again on the file the previous invocation left
Rerun ==
  /\ pc = "done"
  /\ run < MaxRuns
  /\ run' = run + 1
  /\ pc' = "read"
  /\ content' = ""
  /\ textRead' = ""
  /\ stdout' = <<>>
  /\ fileBefore' = file
  /\ UNCHANGED <<file, env, error>>

Next ==
  \/ OpenReadFail
  \/ ReadAll
  \/ SubState
  \/ SubReset
  \/ SubEdit
  \/ SubSubmit
  \/ SubSelect
  \/ SubProjectItem
  \/ OpenWriteFail
  \/ OpenWrite
  \/ WriteClose
  \/ WriteFail
  \/ PrintNotice
  \/ Rerun

Spec == Init /\ [][Next]_vars

(* ----------------------- vocabulary of the properties ------------------ *)
\* the six original fragments and their replacements, in script order
Olds == <<OldState, OldReset, OldEdit, OldSubmit, OldSelect, OldProjectItem>>
News == <<new_state, new_reset, new_edit, new_submit, new_select,
          new_project_item>>

\* the original fragments that occur verbatim in a text
Present(text) == {i \in 1..6 : Has(text, Olds[i])}

\* the run cannot open the file for reading and then for writing
NoAccess == ~fileExists \/ ~readable \/ ~writable

\* the text with every original and every replacement fragment cut out;
\* the reset call is cut first because the submit block contains it
RECURSIVE CutAll(_, _, _)
CutAll(text, frags, i) ==
  IF i > Len(frags) THEN text
  ELSE CutAll(SubFrom(text, 1, frags[i], ""), frags, i + 1)

Outside(text) ==
  CutAll(text, <<OldReset, new_reset, OldState, new_state, OldEdit, new_edit,
                 OldSubmit, new_submit, OldSelect, new_select,
                 OldProjectItem, new_project_item>>, 1)

\* the six substitutions applied in the order given by a sequence of indices
RECURSIVE ApplyInOrder(_, _, _)
ApplyInOrder(text, order, k) ==
  IF k > Len(order) THEN text
  ELSE ApplyInOrder(ReSub(Olds[order[k]], News[order[k]], text), order, k + 1)

Orders == {o \in [1..6 -> 1..6] : \A a, c \in 1..6 : a # c => o[a] # o[c]}

(* ------------------------------- claims -------------------------------- *)
\* C1: a file holding all six original fragments verbatim is rewritten to a
\* file holding all six replacement fragments and none of the originals.
C1_AllSixReplaced ==
  (pc = "done" /\ Present(fileBefore) = 1..6) =>
     /\ \A i \in 1..6 : Has(file, News[i])
     /\ \A i \in 1..6 : ~Has(file, Olds[i])

\* C2: a second run on the output of a first run finds none of the six
\* patterns, changes nothing in memory and leaves the file as the first run
\* wrote it.
C2_Idempotent ==
  run >= 2 =>
     /\ pc = "sub1" => \A i \in 1..6 : ~Has(content, Olds[i])
     /\ pc # "read" => content = textRead
     /\ pc = "done" => file = fileBefore

C2_Witness ==
  /\ run = 2
  /\ pc = "done"
  /\ Has(file, new_state)
  /\ Has(file, new_select)

\* C3: a file holding exactly five of the six original fragments is
\* rewritten without error to a file holding the replacement of each of the
\* five, and no replacement of the sixth.
C3_PartialMatch ==
  (pc = "done" /\ Cardinality(Present(fileBefore)) = 5) =>
     /\ error = "none"
     /\ \A i \in Present(fileBefore) : Has(file, News[i])
     /\ \A i \in (1..6) \ Present(fileBefore) : ~Has(file, News[i])

\* C4: while the path names no file, the only step taken is the read step
\* failing with a filesystem-access error: the file is not created, no text
\* is read or transformed, nothing is written and nothing is printed.
C4_MissingFile ==
  [][~fileExists =>
       /\ pc = "read"
       /\ pc' = "failed"
       /\ error' = "FileNotFoundError"
       /\ ~fileExists'
       /\ file' = ""
       /\ content' = ""
       /\ stdout' = <<>>]_vars

C4_Witness == ~fileExists /\ pc = "failed" /\ error = "FileNotFoundError"

\* C5: the notice is printed at most once, only in a run that completes and
\* only once the file holds the final text; a completed run has printed it
\* exactly once and a failed run has printed nothing.
C5_NoticeOnce ==
  /\ stdout # <<>> =>
        /\ stdout = <<Notice>>
        /\ pc = "done"
        /\ error = "none"
        /\ file = WriteNewlines(content)
  /\ pc = "done" => stdout = <<Notice>>
  /\ pc = "failed" => stdout = <<>> /\ error # "none"

C5_Witness ==
  /\ pc = "done"
  /\ stdout = <<Notice>>
  /\ file # fileBefore

\* C6: when none of the six patterns occurs in the text, the run completes
\* without error, prints the notice and leaves the file content identical,
\* line terminators included, to what it was before the run.
C6_NoMatchIdentity ==
  (pc = "done" /\ Present(textRead) = {}) =>
     /\ error = "none"
     /\ stdout = <<Notice>>
     /\ file = fileBefore

\* C7: when the file is missing, unreadable or unwritable, the run never
\* gets past opening it, prints nothing, fails with a filesystem-access
\* error, and the file stays as it was before the run.
C7_NoPartialWrite ==
  NoAccess =>
     /\ file = fileBefore
     /\ stdout = <<>>
     /\ pc \notin {"write", "print", "done"}
     /\ pc = "failed" => error \in {"FileNotFoundError", "PermissionError"}

C7_Witness ==
  /\ pc = "failed"
  /\ readable
  /\ ~writable
  /\ content # textRead

\* C8: when the text holds the formData state declaration, the completed
\* run has rewritten every such declaration to the replacement declaration,
\* and the text outside the fragments, the stray use of customerId included,
\* is what it was.
C8_StateDeclaration ==
  (pc = "done" /\ Has(textRead, OldState)) =>
     /\ ~Has(content, OldState)
     /\ Count(content, new_state) =
          Count(textRead, new_state) + Count(textRead, OldState)
     /\ Outside(content) = Outside(textRead)
     /\ Count(Outside(content), "customerId") =
          Count(Outside(textRead), "customerId")
     /\ file = WriteNewlines(content)

C8_Witness ==
  /\ pc = "done"
  /\ Has(textRead, OldState)
  /\ Has(file, new_state)
  /\ Has(file, Stray)
  /\ Has(Outside(content), "customerId")

\* C9: no substitution creates or destroys a match of another
\* substitution's pattern, and the six substitutions applied in any order
\* give the text the script's order gives.
C9_Independent ==
  /\ \A i, j \in 1..6 :
        i # j => (Has(ReSub(Olds[i], News[i], content), Olds[j])
                    = Has(content, Olds[j]))
  /\ pc = "done" =>
        \A o \in Orders : ApplyInOrder(textRead, o, 1) = content

\* C10: each substitution leaves no occurrence of its pattern; from the
\* second substitution on the text never holds the old reset call again,
\* and neither does the file once it is written.
C10_EveryOccurrence ==
  /\ pc = "sub2" => ~Has(content, OldState)
  /\ pc \in {"sub3", "sub4", "sub5", "sub6", "open_w", "write", "print",
              "done"} => ~Has(content, OldReset)
  /\ pc = "sub4" => ~Has(content, OldEdit)
  /\ pc = "sub5" => ~Has(content, OldSubmit)
  /\ pc = "sub6" => ~Has(content, OldSelect)
  /\ pc = "open_w" => ~Has(content, OldProjectItem)
  /\ pc \in {"print", "done"} => ~Has(file, OldReset)

C10_Witness ==
  /\ pc = "done"
  /\ Count(textRead, OldReset) >= 2
  /\ Count(file, new_reset) = Count(textRead, OldReset)

=============================================================================
